---- MODULE Spec2Model ----
(***************************************************************************)
(* RootlessSpawner (src/rootlessspawner/spawner.py): a controller that     *)
(* launches one child process, polls its liveness and stops it through the *)
(* escalation interrupt -> terminate -> kill.                              *)
(*                                                                         *)
(* The controller's fields are proc (the Popen handle, or None) and pid.   *)
(* The operating system is a process table os; a Python Optional is a      *)
(* sequence of length at most one (None is <<>>, the value v is <<v>>); a  *)
(* state dict is a set of <<key, value>> pairs.                            *)
(*                                                                         *)
(* stop() is a tornado coroutine: it runs without interruption from one    *)
(* gen.sleep to the next (cur names the coroutine that holds the event     *)
(* loop), while the supervised processes run concurrently with it, so a    *)
(* process may exit between any two system calls of the controller.        *)
(***************************************************************************)
EXTENDS Integers, Sequences, FiniteSets, TLC

\* ------------------------------------------------------------- bounds
\* Process ids of the model: 1 .. MaxPid.
MaxPid == 4
\* Polls made by one wait_for_death: int(timeout / death_interval).
WaitPolls == 1

\* ---------------------------------------------------------- constants
SIGINT == 2
SIGTERM == 15
SIGKILL == 9

Pids == 1 .. MaxPid
\* The stop() coroutines that can be in flight at once.
Tasks == {1, 2}
None == <<>>
Some(v) == <<v>>
\* The exit code of a process that exits on its own.
ExitCodes == {0}

VARIABLES
    proc,       \* self.proc: None, or Some([pid, returncode]) (the Popen object)
    pid,        \* self.pid
    os,         \* process table: pid -> [st, rc, got]
    hubAlive,   \* the supervisor's own process is running
    cur,        \* the stop() coroutine running between two sleeps, 0 when none is
    pc,         \* per stop() coroutine: "idle", "poll", "signal", "wait", "sleep"
    tier,       \* per coroutine: 1 interrupt, 2 terminate, 3 kill, 4 the final check
    iter,       \* per coroutine: polls left in the current wait_for_death
    now,        \* per coroutine: the argument of the stop() call
    sent,       \* per coroutine: the signals this call sent, in order
    hist,       \* per coroutine: what this call has observed so far
    ev,         \* the last call or step of the controller and its outcome
    confirmedDead \* a poll() has returned a status since the last start/load_state

vars == <<proc, pid, os, hubAlive, cur, pc, tier, iter, now, sent, hist, ev,
          confirmedDead>>
ctl == <<proc, pid>>
tasks == <<pc, tier, iter, now, sent, hist>>

\* ------------------------------------------------- the operating system
\* What a pid of the model stands for: pid 1 is a process of another user
\* (signalling it fails with EPERM), pid 2 a process of the same user that
\* this supervisor did not start (the child of an earlier supervisor, known
\* only from persisted state), every other pid one that Popen can hand out.
Kind(p) == IF p = 1 THEN "foreign" ELSE IF p = 2 THEN "orphan" ELSE "child"

\* The pid the next process creation gets (pids are not reused); 0 when the
\* model has none left.
FreshPid ==
    LET free == {p \in Pids : Kind(p) = "child" /\ os[p].st = "unused"}
    IN  IF free = {} THEN 0 ELSE CHOOSE p \in free : \A q \in free : p <= q

\* errno of os.kill(p, sig): "" when the signal is delivered. pid 0 addresses
\* the caller's own process group, which always exists. A zombie (a child that
\* exited and was not waited for) still exists.
KillErrno(p) ==
    IF p = 0 THEN ""
    ELSE IF p \notin Pids \/ os[p].st \in {"unused", "gone"} THEN "ESRCH"
    ELSE IF Kind(p) = "foreign" THEN "EPERM"
    ELSE ""

\* (mutant) terminate and kill change places.
TierSigSwapped(k) == CASE k = 1 -> SIGINT [] k = 2 -> SIGKILL [] OTHER -> SIGTERM

\* The signal of a tier, and the tier of a signal.
TierSig(k) == CASE k = 1 -> SIGINT [] k = 2 -> SIGTERM [] OTHER -> SIGKILL
SigTier(sig) == CASE sig = SIGINT -> 1 [] sig = SIGTERM -> 2 [] OTHER -> 3

\* The process table after os.kill(p, sig): a running process has received
\* sig (got is the highest tier among the signals it received).
KillTable(p, sig) ==
    IF p \in Pids /\ sig # 0 /\ KillErrno(p) = "" /\ os[p].st = "running"
    THEN [os EXCEPT ![p].got = IF SigTier(sig) > @ THEN SigTier(sig) ELSE @]
    ELSE os

\* os.kill(0, sig) signals the supervisor's own process group.
KillsHub(p, sig) == p = 0 /\ sig # 0

\* ------------------------------------------------------- pure helpers
HasKey(state, k) == \E kv \in state : kv[1] = k
Lookup(state, k) == (CHOOSE kv \in state : kv[1] = k)[2]

\* (mutant) the pid saved is the handle's when there is a handle.
get_state_handle ==
    IF proc # None THEN {<<"pid", proc[1].pid>>}
    ELSE IF pid # 0 THEN {<<"pid", pid>>} ELSE {}

\* (mutant) pid is added unconditionally.
get_state_always == {<<"pid", pid>>}

\* get_state(): the base class's dict, with pid added when it is nonzero.
get_state == IF pid # 0 THEN {<<"pid", pid>>} ELSE {}

\* The states a caller can hand to load_state.
States == {{}} \cup {{<<"pid", p>>} : p \in Pids}

\* (mutant) the handle does not keep the returncode: once the child is reaped
\* the wait finds nothing, and Popen.poll() answers None.
PopenPollNoCache(h) ==
    IF os[h.pid].st = "zombie" THEN Some(os[h.pid].rc) ELSE None

\* Popen.poll() on the handle h: its returncode once known, else the result
\* of a non-blocking wait for the child.
PopenPoll(h) ==
    IF h.returncode # None THEN h.returncode
    ELSE IF os[h.pid].st = "zombie" THEN Some(os[h.pid].rc)
    ELSE None

\* _signal(sig): True when delivered, False on ESRCH; "EPERM" is raised.
SignalErrno == KillErrno(pid)

\* (mutant) _signal swallows every OSError: `except OSError: return False`.
PollRaisesNever == FALSE

\* (mutant) `if alive:` for `if not alive:`.
PollStatusInverted ==
    IF proc # None THEN PopenPoll(proc[1])
    ELSE IF pid = 0 THEN Some(0)
    ELSE IF SignalErrno = "ESRCH" THEN None
    ELSE Some(0)

\* poll(): whether it raises, and the status it returns (None: running).
PollRaises == proc = None /\ pid # 0 /\ SignalErrno = "EPERM"
PollStatus ==
    IF proc # None THEN PopenPoll(proc[1])
    ELSE IF pid = 0 THEN Some(0)
    ELSE IF SignalErrno = "ESRCH" THEN Some(0)
    ELSE None

\* The record of a step: the call ("none": a step no property looks at;
\* "load_own_state": load_state given the controller's own get_state()), the
\* coroutine (0: a call of the hub itself), the status a poll returned, the
\* errno of the system call, and how the call ended if the step ended it
\* ("returned", "raised", else "").
Ev(op, t, status, err, out) ==
    [op |-> op, task |-> t, status |-> status, err |-> err, out |-> out]
Quiet == Ev("none", 0, None, "", "")
PollOps == {"poll", "stop_poll", "wait_poll"}

\* What a stop() call has observed so far: a poll of it returned a status
\* (sawExit); the last tier whose wait_for_death is over (waited); the last
\* tier before whose signal stop()'s own poll returned None (alive); the pids
\* its tier signals were delivered to (hit); a tier signal of it failed with
\* ESRCH (vanished).
NoHist == [sawExit |-> FALSE, waited |-> 0, alive |-> 0, hit |-> {},
           vanished |-> FALSE]

\* ------------------------------------------------------------ Init
Init ==
    /\ proc = None
    /\ pid = 0
    /\ os = [p \in Pids |->
               [st |-> IF Kind(p) = "child" THEN "unused" ELSE "running",
                rc |-> 0, got |-> 0]]
    /\ hubAlive = TRUE
    /\ cur = 0
    /\ pc = [t \in Tasks |-> "idle"]
    /\ tier = [t \in Tasks |-> 1]
    /\ iter = [t \in Tasks |-> 0]
    /\ now = [t \in Tasks |-> FALSE]
    /\ sent = [t \in Tasks |-> <<>>]
    /\ hist = [t \in Tasks |-> NoHist]
    /\ ev = Quiet
    /\ confirmedDead = FALSE

\* The hub's event loop can run a call: the hub is alive and no coroutine is
\* between two of its sleeps.
Callable == hubAlive /\ cur = 0

\* No stop() is in flight: the hub serialises the calls that change the
\* tracked process (start, load_state, clear_state) with stop().
Quiescent == Callable /\ \A t \in Tasks : pc[t] = "idle"

\* --------------------------------------------- the supervised processes
\* A running process exits, on its own or of the signal it received. A child
\* of this supervisor stays a zombie until it is waited for.
ProcExit(p) ==
    /\ os[p].st = "running"
    /\ Kind(p) # "foreign"
    /\ \E code \in ExitCodes \cup {-TierSig(k) : k \in {os[p].got} \ {0}} :
         os' = [os EXCEPT ![p] =
                  IF Kind(p) = "child"
                  THEN [st |-> "zombie", rc |-> code, got |-> 0]
                  ELSE [st |-> "gone", rc |-> 0, got |-> 0]]
    /\ ev' = Quiet
    /\ UNCHANGED <<ctl, hubAlive, cur, tasks, confirmedDead>>

\* ------------------------------------------------ state (de)serialisation
\* load_state(state): pid is taken from the state when it has one.
load_state(state) ==
    pid' = IF HasKey(state, "pid") THEN Lookup(state, "pid") ELSE pid

\* (mutant) clear_state() leaves pid as it is.
clear_state_keep == pid' = pid

\* clear_state(): pid becomes 0; proc is left as it is.
clear_state == pid' = 0

LoadState(state) ==
    /\ Quiescent
    /\ load_state(state)
    /\ confirmedDead' = FALSE
    /\ ev' = Ev(IF state = get_state THEN "load_own_state" ELSE "load_state",
                 0, None, "", "returned")
    /\ UNCHANGED <<proc, os, hubAlive, cur, tasks>>

ClearState ==
    /\ Quiescent
    /\ clear_state
    /\ ev' = Quiet
    /\ UNCHANGED <<proc, os, hubAlive, cur, tasks, confirmedDead>>

\* ------------------------------------------------------------ start
\* start(): Popen creates the child in a new session; proc and pid are set.
\* When Popen raises (err), the exception leaves start() before any assignment.
\* (mutant) proc and pid are reset before Popen is called, so a failed launch
\* forgets the process tracked before.
start_reset(err) ==
    IF err = ""
    THEN /\ FreshPid # 0
         /\ proc' = Some([pid |-> FreshPid, returncode |-> None])
         /\ pid' = FreshPid
         /\ os' = [os EXCEPT ![FreshPid].st = "running"]
    ELSE proc' = None /\ pid' = 0 /\ os' = os

start(err) ==
    IF err = ""
    THEN /\ FreshPid # 0
         /\ proc' = Some([pid |-> FreshPid, returncode |-> None])
         /\ pid' = FreshPid
         /\ os' = [os EXCEPT ![FreshPid].st = "running"]
    ELSE UNCHANGED <<proc, pid, os>>

Start(err) ==
    /\ Quiescent
    /\ start(err)
    /\ confirmedDead' = (err # "" /\ confirmedDead)
    /\ ev' = Ev("start", 0, None, err, IF err = "" THEN "returned" ELSE "raised")
    /\ UNCHANGED <<hubAlive, cur, tasks>>

\* ------------------------------------------------------------- poll
\* `if status is not None: self.clear_state()`, `if not alive: self.clear_state()`
\* and the clear_state() of the pid 0 branch.
\* (mutant) `if status:`: the exit status 0 does not clear the state.
PollClearsTruthy == ~PollRaises /\ PollStatus # None /\ PollStatus # Some(0)

PollClears == ~PollRaises /\ PollStatus # None

\* poll(): with a handle, Popen.poll() (which reaps the child and keeps its
\* returncode); without one, pid 0 is "not running" and any other pid is
\* probed with signal 0. The state is cleared when a status is returned.
poll ==
    /\ proc' = IF proc # None
               THEN Some([proc[1] EXCEPT !.returncode = PopenPoll(proc[1])])
               ELSE proc
    /\ os' = IF proc # None /\ proc[1].returncode = None
                /\ os[proc[1].pid].st = "zombie"
             THEN [os EXCEPT ![proc[1].pid] = [st |-> "gone", rc |-> 0, got |-> 0]]
             ELSE os
    /\ IF PollClears THEN clear_state ELSE pid' = pid
    /\ confirmedDead' = (confirmedDead \/ (~PollRaises /\ PollStatus # None))

\* What a poll() records: its status and the errno of its probe.
PollEv(op, t, out) ==
    IF PollRaises THEN Ev(op, t, None, "EPERM", "raised")
    ELSE Ev(op, t, PollStatus,
            IF proc = None /\ pid # 0 THEN SignalErrno ELSE "", out)

Poll ==
    /\ Callable
    /\ poll
    /\ ev' = PollEv("poll", 0, "returned")
    /\ UNCHANGED <<hubAlive, cur, tasks>>

\* ------------------------------------------------------------- stop
\* _signal(sig): os.kill(self.pid, sig). A signal addressed to pid 0 reaches
\* the supervisor itself: SIGKILL ends it, the other two may.
signal(sig) ==
    /\ os' = KillTable(pid, sig)
    /\ IF SignalErrno = "" /\ KillsHub(pid, sig)
       THEN hubAlive' \in (IF sig = SIGKILL THEN {FALSE} ELSE BOOLEAN)
       ELSE hubAlive' = hubAlive

\* (mutant) the interrupt tier is not skipped.
FirstTierAlways(n) == 1

\* The tier stop(now) begins with: `if not now:` guards the interrupt tier.
FirstTier(n) == IF n THEN 2 ELSE 1

\* (mutant) `if status: return`: the exit status 0 does not end stop().
StopReturnsTruthy(status) == status # None /\ status # Some(0)

\* `if status is not None: return`
StopReturns(status) == status # None

\* The call of coroutine t ends (it returned, or an exception left it): its
\* locals are gone.
Finish(t) ==
    /\ pc' = [pc EXCEPT ![t] = "idle"]
    /\ tier' = [tier EXCEPT ![t] = 1]
    /\ iter' = [iter EXCEPT ![t] = 0]
    /\ now' = [now EXCEPT ![t] = FALSE]
    /\ sent' = [sent EXCEPT ![t] = <<>>]
    /\ hist' = [hist EXCEPT ![t] = NoHist]
    /\ cur' = 0

\* (mutant) the kill tier is repeated until the process is gone.
WaitOverRetry(t) ==
    /\ pc' = [pc EXCEPT ![t] = "poll"]
    /\ tier' = [tier EXCEPT ![t] = IF @ = 3 THEN 3 ELSE @ + 1]
    /\ iter' = [iter EXCEPT ![t] = 0]

\* wait_for_death(timeout) of coroutine t is over: stop() goes on to the
\* poll that opens the next tier (or to the final check).
WaitOver(t) ==
    /\ pc' = [pc EXCEPT ![t] = "poll"]
    /\ tier' = [tier EXCEPT ![t] = @ + 1]
    /\ iter' = [iter EXCEPT ![t] = 0]

\* stop(now) is called: the coroutine runs up to its first sleep.
StopCall(t, n) ==
    /\ Callable
    /\ pc[t] = "idle"
    /\ pc' = [pc EXCEPT ![t] = "poll"]
    /\ tier' = [tier EXCEPT ![t] = FirstTier(n)]
    /\ now' = [now EXCEPT ![t] = n]
    /\ cur' = t
    /\ ev' = Quiet
    /\ UNCHANGED <<ctl, os, hubAlive, iter, sent, hist, confirmedDead>>

\* `status = yield self.poll()` of stop() itself, before a tier's signal and
\* as the final check.
StopPoll(t) ==
    /\ hubAlive /\ cur = t /\ pc[t] = "poll"
    /\ poll
    /\ ev' = PollEv("stop_poll", t,
                     IF StopReturns(PollStatus) \/ tier[t] = 4 THEN "returned" ELSE "")
    /\ IF PollRaises \/ StopReturns(PollStatus) \/ tier[t] = 4
       THEN \* raised; returned; or "Process %i never died" logged, and returned
            Finish(t)
       ELSE /\ pc' = [pc EXCEPT ![t] = "signal"]
            /\ hist' = [hist EXCEPT ![t].alive = IF PollStatus = None
                                                 THEN tier[t] ELSE @,
                                    ![t].sawExit = @ \/ PollStatus # None]
            /\ UNCHANGED <<tier, iter, now, sent, cur>>
    /\ UNCHANGED hubAlive

\* `yield self._signal(SIG)` followed by the call of wait_for_death.
StopSignal(t) ==
    /\ hubAlive /\ cur = t /\ pc[t] = "signal"
    /\ signal(TierSig(tier[t]))
    /\ ev' = Ev("signal", t, None, SignalErrno,
                 IF SignalErrno = "EPERM" THEN "raised" ELSE "")
    /\ IF SignalErrno = "EPERM"
       THEN Finish(t)
       ELSE /\ sent' = [sent EXCEPT ![t] = Append(@, TierSig(tier[t]))]
            /\ hist' = [hist EXCEPT
                          ![t].hit = IF os' # os THEN @ \cup {pid} ELSE @,
                          ![t].vanished = @ \/ SignalErrno = "ESRCH",
                          ![t].waited = IF WaitPolls = 0 THEN tier[t] ELSE @]
            /\ IF WaitPolls = 0
               THEN WaitOver(t)
               ELSE /\ pc' = [pc EXCEPT ![t] = "wait"]
                    /\ iter' = [iter EXCEPT ![t] = WaitPolls]
                    /\ UNCHANGED tier
            /\ UNCHANGED <<now, cur>>
    /\ UNCHANGED <<ctl, confirmedDead>>

\* One round of wait_for_death: poll, return if a status came back, else sleep.
WaitPoll(t) ==
    /\ hubAlive /\ cur = t /\ pc[t] = "wait"
    /\ poll
    /\ ev' = PollEv("wait_poll", t, "")
    /\ IF PollRaises
       THEN Finish(t)
       ELSE IF PollStatus # None
       THEN /\ WaitOver(t)
            /\ hist' = [hist EXCEPT ![t].sawExit = TRUE, ![t].waited = tier[t]]
            /\ UNCHANGED <<now, sent, cur>>
       ELSE /\ pc' = [pc EXCEPT ![t] = "sleep"]
            /\ cur' = 0
            /\ UNCHANGED <<tier, iter, now, sent, hist>>
    /\ UNCHANGED hubAlive

\* The sleep of wait_for_death is over: the next round, or the end of the wait.
WaitWake(t) ==
    /\ Callable /\ pc[t] = "sleep"
    /\ cur' = t
    /\ IF iter[t] - 1 = 0
       THEN WaitOver(t) /\ hist' = [hist EXCEPT ![t].waited = tier[t]]
       ELSE /\ pc' = [pc EXCEPT ![t] = "wait"]
            /\ iter' = [iter EXCEPT ![t] = @ - 1]
            /\ UNCHANGED <<tier, hist>>
    /\ ev' = Quiet
    /\ UNCHANGED <<ctl, os, hubAlive, now, sent, confirmedDead>>

\* ------------------------------------------------------------- Next
\* The calls of the hub that change what the controller tracks.
Mutate ==
    \/ \E err \in {"", "EACCES", "ENOENT"} : Start(err)
    \/ \E state \in States : LoadState(state)
    \/ ClearState

\* The steps of the stop() coroutine t once it is called.
StopStep(t) ==
    \/ StopPoll(t)
    \/ StopSignal(t)
    \/ WaitPoll(t)
    \/ WaitWake(t)

\* One stop() is in flight at a time, and only poll() is called during its
\* sleeps.
Next ==
    \/ \E p \in Pids : ProcExit(p)
    \/ Poll
    \/ Mutate
    \/ \E n \in BOOLEAN : StopCall(1, n)
    \/ StopStep(1)

Spec == Init /\ [][Next]_vars

\* stop() is called again while a stop() is in flight: two calls overlap.
NextConc ==
    \/ \E p \in Pids : ProcExit(p)
    \/ Poll
    \/ Mutate
    \/ \E t \in Tasks, n \in BOOLEAN : StopCall(t, n)
    \/ \E t \in Tasks : StopStep(t)

SpecConc == Init /\ [][NextConc]_vars

\* ------------------------------------------------------------ properties
Active(t) == pc[t] # "idle"
\* The escalation the specification fixes.
Escalation == <<SIGINT, SIGTERM, SIGKILL>>
Place(sig) == CHOOSE i \in 1 .. 3 : Escalation[i] = sig

\* The process of the handle h has exited, and its exit status.
HandleExited(h) == h.returncode # None \/ os[h.pid].st = "zombie"
HandleStatus(h) == IF h.returncode # None THEN h.returncode ELSE Some(os[h.pid].rc)

\* The process the controller supervises (the one of its handle, or without a
\* handle the one of its pid), and whether it has exited.
Tracked == IF proc # None THEN proc[1].pid ELSE pid
TrackedExited ==
    IF proc # None THEN HandleExited(proc[1])
    ELSE pid = 0 \/ os[pid].st \in {"unused", "gone"}

\* C1: in one stop(now=False) call the signals are sent in the order interrupt,
\* terminate, kill, and a terminate or kill has been sent only after the wait
\* of the tier before it was over and stop()'s poll after that wait returned
\* None (the process was still alive).
C1_EscalationOrder ==
    \A t \in Tasks :
        (Active(t) /\ ~now[t]) =>
            LET m == Len(sent[t]) IN
            /\ m <= 3
            /\ sent[t] = SubSeq(Escalation, 1, m)
            /\ m >= 2 => (hist[t].waited >= m - 1 /\ hist[t].alive >= m)
            /\ pc[t] = "signal" =>
                 (m = tier[t] - 1 /\ hist[t].waited = m /\ hist[t].alive = tier[t])

\* A stop(now=False) call has sent all three signals.
C1_Witness == \E t \in Tasks : Active(t) /\ ~now[t] /\ sent[t] = Escalation

\* C2: once a poll() made inside a stop() call (by wait_for_death or by stop()
\* itself) has returned a status, the call sends no further signal: its next
\* step is stop()'s own poll, which returns a status again and ends the call.
\* And when the supervised process has exited by the time of one of stop()'s
\* own polls (the one after the interrupt wait, for a process that exited
\* during that wait), the call returns at that poll, before the next signal.
C2_ExitShortCircuits ==
    /\ [](\A t \in Tasks :
            hist[t].sawExit =>
                /\ pc[t] = "poll"
                /\ cur = t
                /\ ~PollRaises
                /\ PollStatus # None
                /\ StopReturns(PollStatus))
    /\ [][\A t \in Tasks :
            (/\ pc[t] = "poll" /\ ev'.op = "stop_poll" /\ ev'.task = t
             /\ TrackedExited)
            => (ev'.out = "returned" /\ pc'[t] = "idle" /\ sent'[t] = <<>>)]_vars

\* The process exited during the interrupt wait of a stop(now=False) call and
\* the wait's poll observed it: only the interrupt has been sent.
C2_Witness ==
    \E t \in Tasks :
        hist[t].sawExit /\ ~now[t] /\ sent[t] = <<SIGINT>> /\ tier[t] = 2
                        /\ ev.op = "wait_poll"

\* C3: stop(now=True) never sends the interrupt: what it sends is terminate,
\* or terminate followed by kill.
C3_NowSkipsInterrupt ==
    \A t \in Tasks :
        (Active(t) /\ now[t]) =>
            /\ sent[t] \in {<<>>, <<SIGTERM>>, <<SIGTERM, SIGKILL>>}
            /\ tier[t] >= 2

\* A stop(now=True) call has sent terminate and kill.
C3_Witness ==
    \E t \in Tasks : Active(t) /\ now[t] /\ sent[t] = <<SIGTERM, SIGKILL>>

\* The step ends the stop() call of coroutine t with a normal return.
StopReturned(t) ==
    Active(t) /\ ev'.op = "stop_poll" /\ ev'.task = t /\ ev'.out = "returned"

\* C4: when a stop() call returns and the supervised process, to which the
\* call delivered a tier signal, has died by then, the process has been
\* observed exited: pid is 0, get_state() has no pid and a following poll()
\* returns a status.
C4_DeathObservedAtReturn ==
    [][\A t \in Tasks :
          (/\ StopReturned(t)
           /\ \E p \in hist[t].hit : p = Tracked /\ os[p].st # "running")
          => /\ pid' = 0
             /\ get_state' = {}
             /\ ~PollRaises'
             /\ PollStatus' # None]_vars

\* stop() escalated to kill, its own poll then found the process killed by
\* SIGKILL, and the call returned with the state cleared.
C4_Witness ==
    /\ ev.op = "stop_poll" /\ ev.out = "returned"
    /\ ev.status = Some(-SIGKILL)
    /\ proc # None /\ proc[1].returncode = Some(-SIGKILL)
    /\ pid = 0

\* Steps left to a stop() call before its final check, plus one.
Rank(t) ==
    IF ~Active(t) THEN 0
    ELSE IF tier[t] = 4 THEN 1
    ELSE 1 + (CASE pc[t] = "poll" -> (4 - tier[t]) * (2 + 2 * WaitPolls)
                [] pc[t] = "signal" -> (4 - tier[t]) * (2 + 2 * WaitPolls) - 1
                [] pc[t] = "wait" -> (3 - tier[t]) * (2 + 2 * WaitPolls) + 2 * iter[t]
                [] OTHER -> (3 - tier[t]) * (2 + 2 * WaitPolls) + 2 * iter[t] - 1)

\* C5: a stop() call sends at most one signal per tier, in rising order (so at
\* most three, and kill once); every step of the call brings it closer to its
\* end (it cannot loop); and when the final check still finds the process
\* alive the call returns normally, without an error.
C5_StopTerminates ==
    /\ [](\A t \in Tasks :
            /\ Len(sent[t]) <= 3
            /\ \A i, j \in 1 .. Len(sent[t]) :
                 i < j => Place(sent[t][i]) < Place(sent[t][j]))
    /\ [][\A t \in Tasks :
            Active(t) =>
              /\ \/ <<pc[t], tier[t], iter[t]>>' = <<pc[t], tier[t], iter[t]>>
                 \/ Rank(t)' < Rank(t)
              /\ (/\ pc[t] = "poll" /\ tier[t] = 4
                  /\ ev'.op = "stop_poll" /\ ev'.task = t
                  /\ ev'.err # "EPERM" /\ ev'.status = None)
                 => (ev'.out = "returned" /\ ~Active(t)')]_vars

\* The final check of a stop() call found the process still alive and the
\* call returned.
C5_Witness == ev.op = "stop_poll" /\ ev.out = "returned" /\ ev.status = None

\* C6: right after a poll() that returned a status, another poll() returns a
\* status too, and the controller has no pid: pid is 0 and get_state() has none.
C6_PollIdempotent ==
    (ev.op \in PollOps /\ ev.out # "raised" /\ ev.status # None) =>
        /\ ~PollRaises
        /\ PollStatus # None
        /\ pid = 0
        /\ ~HasKey(get_state, "pid")

\* A poll() on a handle has just returned the status of a process that exited.
C6_Witness == ev.op = "poll" /\ ev.status # None /\ proc # None

\* C7: with a handle, poll() returns the exit status of the handle's process
\* and clears pid (get_state() has none) when that process has exited, and
\* returns None and changes neither pid nor handle when it is running.
C7_PollWithHandle ==
    [][(ev'.op \in PollOps /\ proc # None) =>
          IF HandleExited(proc[1])
          THEN /\ ev'.out # "raised"
               /\ ev'.status = HandleStatus(proc[1])
               /\ pid' = 0
               /\ get_state' = {}
          ELSE /\ ev'.out # "raised"
               /\ ev'.status = None
               /\ pid' = pid
               /\ proc' = proc]_vars

\* The process exited on its own with status 0 and a poll() of the hub on the
\* handle returned that status and cleared the state.
C7_Witness ==
    /\ ev.op = "poll" /\ ev.status = Some(0)
    /\ proc # None /\ proc[1].returncode = Some(0)
    /\ pid = 0

\* C8: without a handle, poll() returns a status and leaves the state empty
\* when pid is 0; with another pid it probes the pid with signal 0 (nothing is
\* delivered to the process) and returns None with pid unchanged when the
\* process exists, or clears pid and returns a status when it does not.
C8_PollWithoutHandle ==
    [][(ev'.op \in PollOps /\ proc = None) =>
          IF pid = 0
          THEN ev'.out # "raised" /\ ev'.status # None /\ pid' = 0
               /\ get_state' = {} /\ os' = os
          ELSE IF os[pid].st \in {"unused", "gone"}
          THEN ev'.out # "raised" /\ ev'.err = "ESRCH" /\ ev'.status # None
               /\ pid' = 0 /\ os' = os
          ELSE IF Kind(pid) # "foreign"
          THEN ev'.out # "raised" /\ ev'.err = "" /\ ev'.status = None
               /\ pid' = pid /\ os' = os
          ELSE TRUE]_vars

\* A poll() without a handle probed a pid whose process was gone, returned a
\* status and cleared the pid.
C8_Witness ==
    ev.op = "poll" /\ proc = None /\ ev.err = "ESRCH" /\ ev.status # None /\ pid = 0

\* C9: when the signal of a step (the probe of a poll(), a tier signal of
\* stop()) is addressed to a process the caller may not signal, the call ends
\* in an error at that step: no status is returned, pid is not cleared, and a
\* stop() call is over, having delivered nothing.
C9_OtherErrorsPropagate ==
    [][(/\ pid \in Pids /\ Kind(pid) = "foreign" /\ os[pid].st = "running"
        /\ \/ ev'.op \in PollOps /\ proc = None
           \/ ev'.op = "signal")
       => /\ ev'.out = "raised"
          /\ ev'.err = "EPERM"
          /\ ev'.status = None
          /\ pid' = pid
          /\ os' = os
          /\ ev'.task # 0 => pc'[ev'.task] = "idle"]_vars

\* A tier signal of stop() failed with EPERM and the error left the call.
C9_Witness == ev.op = "signal" /\ ev.out = "raised" /\ pid # 0

\* C10: once a poll() (of the hub or inside stop()) has returned a status, and
\* until the next start or load_state, get_state() has no pid; and get_state()
\* has the key pid, with the tracked pid as value, exactly when pid is nonzero.
C10_NoStalePid ==
    /\ confirmedDead => ~HasKey(get_state, "pid")
    /\ HasKey(get_state, "pid") <=> pid # 0
    /\ HasKey(get_state, "pid") => Lookup(get_state, "pid") = pid

\* A stop() call on a started process has observed its exit and returned.
C10_Witness ==
    /\ confirmedDead /\ ev.op = "stop_poll" /\ ev.out = "returned"
    /\ ev.status # None /\ proc # None /\ get_state = {}

\* ------------------------------------------- a controller recreated from state
\* load_state(state) on a controller that was just constructed (proc None,
\* pid 0): the pid it tracks afterwards.
LoadedPid(state) == IF HasKey(state, "pid") THEN Lookup(state, "pid") ELSE 0

\* poll() of a controller without a handle that tracks the pid p: whether the
\* probe raises, and the status returned (None: running).
ProbeRaises(p) == p # 0 /\ KillErrno(p) = "EPERM"
ProbeStatus(p) ==
    IF p = 0 THEN Some(0)
    ELSE IF KillErrno(p) = "ESRCH" THEN Some(0)
    ELSE None

\* C11: in every reachable state, a controller just constructed and given
\* get_state() through load_state tracks the same pid as the original, and its
\* poll() returns a status ("exited") exactly when the original's poll() does,
\* and None ("running") exactly when the original's does.
C11_RoundTripPoll ==
    LET p == LoadedPid(get_state) IN
    /\ p = pid
    /\ (~ProbeRaises(p) /\ ProbeStatus(p) # None) <=> (~PollRaises /\ PollStatus # None)
    /\ (~ProbeRaises(p) /\ ProbeStatus(p) = None) <=> (~PollRaises /\ PollStatus = None)

\* C12: load_state called with the controller's own get_state() changes
\* neither pid nor the handle.
C12_LoadOwnStateNoOp ==
    [][ev'.op = "load_own_state" => (pid' = pid /\ proc' = proc)]_vars

\* load_state was given the state of a controller that has a handle and a pid.
C12_Witness ==
    /\ ev.op = "load_own_state"
    /\ proc # None /\ pid = proc[1].pid
    /\ get_state = {<<"pid", pid>>}

\* C13: in every reachable state, when the controller has a handle, pid is the
\* process id of that handle.
C13_HandlePidAgree == proc # None => pid = proc[1].pid

\* C14: when the process creation of start() fails (the executable is missing
\* or may not be run), the error leaves start(), and pid, the handle and
\* get_state() are what they were before the call (so get_state() gains no
\* pid); no process was created.
C14_FailedStartKeepsState ==
    [][(ev'.op = "start" /\ ev'.err # "") =>
          /\ ev'.out = "raised"
          /\ pid' = pid
          /\ proc' = proc
          /\ get_state' = get_state
          /\ os' = os]_vars

\* The first start() of a controller failed on a missing executable: it has no
\* handle and no pid.
C14_Witness ==
    /\ ev.op = "start" /\ ev.err = "ENOENT" /\ ev.out = "raised"
    /\ proc = None /\ pid = 0 /\ get_state = {}

\* C15: while two stop() calls are in flight, a tier signal that one of them
\* delivers to the running process is of no earlier tier than any signal the
\* other call has delivered to it: no interrupt after a terminate or kill, no
\* terminate after a kill. (While both calls are in flight and pid is nonzero,
\* pid has not changed, so both calls signalled the same process.)
C15_ConcurrentTierOrder ==
    [][\A t \in Tasks :
          (/\ ev'.op = "signal" /\ ev'.task = t /\ ev'.err = ""
           /\ pid \in Pids /\ os[pid].st = "running")
          => \A o \in Tasks \ {t} :
                Active(o) =>
                  \A i \in 1 .. Len(sent[o]) :
                     Place(sent[o][i]) <= Place(sent'[t][Len(sent'[t])])]_vars

\* A poll() has observed the exit and the state is cleared: the handle holds
\* its returncode, or there is no handle and pid is 0.
Observed == IF proc # None THEN proc[1].returncode # None ELSE pid = 0

\* C16: a poll() of the hub runs only during a sleep of an in-flight stop();
\* when it returns a status the state is cleared (pid 0) and the exit is on
\* record; and while the exit is on record the in-flight stop() sends no
\* signal, raises no error, and returns at its next own poll.
C16_PollDuringStopSafe ==
    [][\A t \in Tasks :
          Active(t) =>
            /\ (ev'.op = "poll" /\ ev'.status # None)
               => /\ pc[t] = "sleep"
                  /\ ev'.out = "returned"
                  /\ Observed'
                  /\ pid' = 0
            /\ Observed
               => /\ Observed'
                  /\ ev'.op # "signal"
                  /\ ev'.out # "raised"
                  /\ sent'[t] \in {sent[t], <<>>}
                  /\ (ev'.op = "stop_poll" /\ ev'.task = t)
                     => (ev'.out = "returned" /\ ev'.status # None /\ ~Active(t)')
                  /\ (ev'.task = t /\ Active(t)') => Rank(t)' < Rank(t)]_vars

\* During the interrupt wait of a stop() the process exited, and a poll() of
\* the hub made during the sleep returned its status and cleared the state.
C16_Witness ==
    \E t \in Tasks :
        /\ pc[t] = "sleep" /\ sent[t] = <<SIGINT>>
        /\ ev.op = "poll" /\ ev.status # None /\ ev.out = "returned"
        /\ proc # None /\ pid = 0

\* C17: when a tier signal of a stop() call fails with ESRCH (the process no
\* longer exists), no error leaves the call, the call goes on to its liveness
\* confirmation (the wait and poll of that tier), and the call sends no
\* further signal: no signal step of a call follows an ESRCH of the same call.
C17_VanishedIsSuccess ==
    [][\A t \in Tasks :
          /\ (ev'.op = "signal" /\ ev'.task = t /\ ev'.err = "ESRCH")
             => /\ ev'.out # "raised"
                /\ Active(t)'
                /\ pc'[t] \in {"wait", "poll"}
          /\ (ev'.op = "signal" /\ ev'.task = t) => ~hist[t].vanished]_vars

\* C18: when the final check of a stop() call finds the process still alive
\* after the tiers of the call (escalation exhausted), the call returns without
\* an error and the process is no longer tracked: pid is 0 and get_state() has
\* no pid.
C18_ExhaustionUntracks ==
    [][\A t \in Tasks :
          (/\ pc[t] = "poll" /\ tier[t] = 4
           /\ ev'.op = "stop_poll" /\ ev'.task = t
           /\ ev'.err # "EPERM" /\ ev'.status = None)
          => /\ ev'.out = "returned"
             /\ pid' = 0
             /\ ~HasKey(get_state', "pid")]_vars

\* C19: no signal is ever addressed to pid 0 (the supervisor's own process
\* group): every tier signal of stop() goes to a nonzero pid, a poll() probes
\* only a nonzero pid, and so the supervisor is never hit by its own signal.
C19_NoSignalToPidZero ==
    [][/\ ev'.op = "signal" => (pid # 0 /\ ~KillsHub(pid, TierSig(tier[ev'.task])))
       /\ (ev'.op \in PollOps /\ proc = None /\ pid = 0) => ev'.err = ""
       /\ hubAlive => hubAlive']_vars

\* The running processes that this controller launched.
LiveChildren == {p \in Pids : Kind(p) = "child" /\ os[p].st = "running"}

\* C20: at most one process launched by the controller is alive, and it is
\* the process of the controller's handle: start() never replaces the handle
\* of a child that is still running.
C20_SingleLiveChild ==
    /\ Cardinality(LiveChildren) <= 1
    /\ \A p \in LiveChildren : proc # None /\ proc[1].pid = p

====
